---------------------------- MODULE Spec2Model ----------------------------
(***************************************************************************)
(* Model of rose-conv's `map` command (convert_map in                      *)
(* src/rose-conv/src/bin/rose-conv.rs): the stitching of per-coordinate    *)
(* HIM height tiles and TIL tile-index tiles into two global grids, the    *)
(* running elevation extremes, the normalisation of the height grid into   *)
(* an 8-bit raster, the zone tile merge and the three output artifacts.    *)
(***************************************************************************)
EXTENDS Integers, Sequences, FiniteSets, TLC

(***************************************************************************)
(* 32-bit floats.  An f32 is encoded as an integer: a finite value v with  *)
(* |v| <= 2^24 stands for itself (every such integer is exactly an f32),   *)
(* and three codes outside that range stand for NaN and the infinities.    *)
(* The codes are ordered so that integer order is f32 order on non-NaNs.   *)
(***************************************************************************)
NaN == 1999999999
PosInf == 1500000000
NegInf == -1500000000

F32IsNan(a) == a = NaN
F32IsInf(a) == a = PosInf \/ a = NegInf
F32IsFinite(a) == ~F32IsNan(a) /\ ~F32IsInf(a)

\* IEEE comparisons: false as soon as one side is NaN.
F32Gt(a, b) == ~F32IsNan(a) /\ ~F32IsNan(b) /\ a > b
F32Lt(a, b) == ~F32IsNan(a) /\ ~F32IsNan(b) /\ a < b

\* a - b.  Finite operands of the model are small integers: the difference
\* is exact.
F32Sub(a, b) ==
    IF F32IsNan(a) \/ F32IsNan(b) THEN NaN
    ELSE IF F32IsInf(a) THEN (IF a = b THEN NaN ELSE a)
    ELSE IF F32IsInf(b) THEN (IF b = PosInf THEN NegInf ELSE PosInf)
    ELSE a - b

Abs(n) == IF n < 0 THEN -n ELSE n
Sign(n) == IF n < 0 THEN -1 ELSE 1
Pow2(k) == 2 ^ k

\* A float that need not be an integer: sign s, 24-bit significand m and
\* exponent e stand for s * m * 2^e; k tells the specials apart.
FNan == [k |-> "nan", s |-> 1, m |-> 0, e |-> 0]
FInf(sg) == [k |-> "inf", s |-> sg, m |-> 0, e |-> 0]
FFin(sg, mm, ee) == [k |-> "fin", s |-> sg, m |-> mm, e |-> ee]

\* Round to nearest, ties to even: significand mm with guard bit g and
\* sticky bit st below it.
RoundNearestEven(sg, mm, ee, g, st) ==
    LET up == g /\ (st \/ mm % 2 = 1)
        m1 == IF up THEN mm + 1 ELSE mm
    IN  IF m1 = Pow2(24) THEN FFin(sg, Pow2(23), ee + 1) ELSE FFin(sg, m1, ee)

\* The least j with a * 2^j >= b (a >= 1).
RECURSIVE ShiftUp(_, _)
ShiftUp(a, b) == IF a >= b THEN 0 ELSE 1 + ShiftUp(2 * a, b)

\* The bits of a / b after the leading one: returns <<significand, remainder>>
\* after `left` more quotient bits (long division).
RECURSIVE LongDiv(_, _, _, _)
LongDiv(q, r, b, left) ==
    IF left = 0 THEN <<q, r>>
    ELSE IF 2 * r >= b THEN LongDiv(2 * q + 1, 2 * r - b, b, left - 1)
    ELSE LongDiv(2 * q, 2 * r, b, left - 1)

\* n / d of two f32 values, correctly rounded (IEEE 754 binary32).
F32Div(n, d) ==
    IF F32IsNan(n) \/ F32IsNan(d) THEN FNan
    ELSE IF F32IsInf(n) THEN (IF F32IsInf(d) THEN FNan ELSE FInf(Sign(n) * Sign(d)))
    ELSE IF F32IsInf(d) THEN FFin(Sign(n) * Sign(d), 0, 0)
    ELSE IF d = 0 THEN (IF n = 0 THEN FNan ELSE FInf(Sign(n)))
    ELSE IF n = 0 THEN FFin(Sign(d), 0, 0)
    ELSE LET a == Abs(n)
             b == Abs(d)
             sa == ShiftUp(a, b)              \* a * 2^sa >= b
             sb == ShiftUp(2 * b, a + 1) \* 2 * b * 2^sb > a
             a1 == a * Pow2(sa)
             b1 == b * Pow2(sb)
             qr == LongDiv(1, a1 - b1, b1, 23)
             g  == 2 * qr[2] >= b1
             r2 == IF g THEN 2 * qr[2] - b1 ELSE 2 * qr[2]
         IN  RoundNearestEven(Sign(n) * Sign(d), qr[1], sb - sa - 23, g, r2 > 0)

\* 255.0 * q, correctly rounded.  The exact product 255 * m is split as
\* hi * 256 + lo so that no intermediate value leaves 31 bits.
F32Mul255(q) ==
    IF q.k # "fin" \/ q.m = 0 THEN q
    ELSE LET c  == 255 * (q.m % 256)
             hi == 255 * (q.m \div 256) + (c \div 256)
             lo == c % 256
         IN  IF hi >= Pow2(23)
             THEN RoundNearestEven(q.s, hi, q.e + 8, lo >= 128, lo % 128 # 0)
             ELSE RoundNearestEven(q.s, 2 * hi + (lo \div 128), q.e + 7,
                                   (lo % 128) >= 64, lo % 64 # 0)

\* `as u8` of an f32: NaN gives 0, the value is truncated toward zero and
\* saturates at 0 and 255.
AsU8(p) ==
    IF p.k = "nan" THEN 0
    ELSE IF p.k = "inf" THEN (IF p.s > 0 THEN 255 ELSE 0)
    ELSE IF p.s < 0 \/ p.m = 0 THEN 0
    ELSE IF p.e >= 0 THEN 255
    ELSE IF -p.e >= 24 THEN 0
    ELSE LET t == p.m \div Pow2(-p.e) IN IF t > 255 THEN 255 ELSE t

\* The closure norm_height of the rasterizer.
norm_height(h, min_height_, delta_height) ==
    AsU8(F32Mul255(F32Div(F32Sub(h, min_height_), delta_height)))


(***************************************************************************)
(* Program constants and the bounds of the model.                          *)
(***************************************************************************)
HimSize == 65          \* a HIM tile is 65 x 65 samples
TilSize == 16          \* a TIL tile is 16 x 16 tile ids
I32Max == 2147483647

MaxSpan == 2           \* tiles per axis of the bounding rectangle
MaxFaults == 2         \* absent or wrong-shaped tile files per directory
MaxOrigin == 1         \* least coordinates of the rectangles tried: 0..MaxOrigin
MaxSamples == 4        \* samples of a sequence fed to the extremes tracker
DimWindow == 4         \* spans tried on each side of an f32 precision step

(***************************************************************************)
(* The map directory.  `listing` is the set of coordinates that have a HIM *)
(* file name, `faults` tells which tile files of the bounding rectangle    *)
(* are absent ("absent": from_path returns Err) or hold a tile of the      *)
(* wrong shape ("shape"), and `pattern` selects the samples of the tiles.  *)
(***************************************************************************)
Patterns == {"ramp", "flatneg", "flatzero", "flatpos", "nanlead", "posinf", "neginf"}

Rect(ox, oy, nx, ny) == (ox .. ox + nx - 1) \X (oy .. oy + ny - 1)

SetMin(S) == CHOOSE m \in S : \A n \in S : m <= n
SetMax(S) == CHOOSE m \in S : \A n \in S : m >= n

x_coords(w) == {c[1] : c \in w.listing}
y_coords(w) == {c[2] : c \in w.listing}

BBox(L) == (SetMin({c[1] : c \in L}) .. SetMax({c[1] : c \in L}))
           \X (SetMin({c[2] : c \in L}) .. SetMax({c[2] : c \in L}))

FileKind(w, c, ext) ==
    IF <<c, ext>> \in DOMAIN w.faults THEN w.faults[<<c, ext>>] ELSE "ok"

\* The fault maps over one rectangle: at most MaxFaults faulty files, and
\* the HIM names that remain span the rectangle.
Listing(RC, f) ==
    {c \in RC : ~(<<c, "HIM">> \in DOMAIN f /\ f[<<c, "HIM">>] = "absent")}

FaultMaps(RC) ==
    LET Sites == RC \X {"HIM", "TIL"}
        FaultSets == {F \in SUBSET Sites : Cardinality(F) <= MaxFaults}
    IN  {g \in UNION {[F -> {"absent", "shape"}] : F \in FaultSets} :
            Listing(RC, g) # {} /\ BBox(Listing(RC, g)) = RC}

\* The directories tried: every sample pattern over every rectangle with
\* every file sound, and every fault map (samples "ramp") over the
\* rectangles whose least coordinate is (0, 0).
Rects(origins) ==
    {Rect(o, 2 * o, nx, ny) : o \in origins, nx \in 1 .. MaxSpan, ny \in 1 .. MaxSpan}

World(RC, f, p) == [listing |-> Listing(RC, f), faults |-> f, pattern |-> p]

NoFaults == [s \in {} |-> "ok"]

Worlds ==
    {World(RC, NoFaults, p) : RC \in Rects(0 .. MaxOrigin), p \in Patterns}
    \cup UNION {{World(RC, f, "ramp") : f \in FaultMaps(RC)} : RC \in Rects({0})}

\* The sample him.height(h, w) of the HIM tile at coordinate c.
HimBase(c) == 5000 * ((c[1] + 3 * c[2]) % 16) - 6000
HimHeight(w, c, h, wd) ==
    CASE w.pattern = "flatneg" -> -64
      [] w.pattern = "flatzero" -> 0
      [] w.pattern = "flatpos" -> 64
      [] w.pattern = "nanlead" /\ h = 0 /\ wd = 0 -> NaN
      [] w.pattern = "posinf" /\ h = 1 /\ wd = 2 -> PosInf
      [] w.pattern = "neginf" /\ h = 2 /\ wd = 1 -> NegInf
      [] OTHER -> HimBase(c) + HimSize * h + wd

\* The tile id til.tiles[h][w].tile_id of the TIL tile at coordinate c.
TilTileId(w, c, h, wd) == 1 + 256 * ((c[1] + 3 * c[2]) % 16) + TilSize * h + wd

\* Shapes <<length, width>> of a wrong-shaped HIM, <<height, width>> of a TIL.
BadHimDims == {<<64, 65>>, <<65, 64>>}
BadTilDims == {<<15, 16>>, <<16, 15>>}


(***************************************************************************)
(* Dimension and index arithmetic of convert_map.                          *)
(***************************************************************************)
\* `n as f32` of a u32: the nearest float, ties to the even significand.
RECURSIVE BitLength(_)
BitLength(n) == IF n = 0 THEN 0 ELSE 1 + BitLength(n \div 2)

U32AsF32(n) ==
    IF BitLength(n) <= 24 THEN n
    ELSE LET step == Pow2(BitLength(n) - 24)
             lo   == (n \div step) * step
             rest == n - lo
         IN  IF 2 * rest < step THEN lo
             ELSE IF 2 * rest > step THEN lo + step
             ELSE IF (n \div step) % 2 = 0 THEN lo ELSE lo + step

\* (hi - lo + 1) * 65
map_dim(lo, hi) == (hi - lo + 1) * HimSize

\* ((map_dim as f32 / 4.0).ceil() * 4.0) as u32 + 1: the float is an
\* integer, its quarter and the product by 4.0 are exact.
new_map_dim(map_d) == ((U32AsF32(map_d) + 3) \div 4) * 4 + 1

\* new_map_dim / 4
tiles_dim(new_d) == new_d \div 4

\* ((c - c_min) * 65) + l  and  ((c - c_min) * 16) + l
\* A variant of him_new in which neighbouring tiles share their border
\* samples.
him_new_shared_border(c, c_min, l) == ((c - c_min) * (HimSize - 1)) + l
him_new(c, c_min, l) == ((c - c_min) * HimSize) + l
\* A variant of til_new that forgets the least coordinate.
til_new_unshifted(c, c_min, l) == (c * TilSize) + l
til_new(c, c_min, l) == ((c - c_min) * TilSize) + l

(***************************************************************************)
(* The running extremes: one pass of the sample loop body.                 *)
(* ext = <<max_height, min_height>>.                                       *)
(***************************************************************************)
\* A variant of UpdateExtremes without the is_nan() tests.
UpdateExtremesNoNanTest(ext, height) ==
    << IF F32Gt(height, ext[1]) THEN height ELSE ext[1],
       IF F32Lt(height, ext[2]) THEN height ELSE ext[2] >>

UpdateExtremes(ext, height) ==
    << IF F32Gt(height, ext[1]) \/ F32IsNan(ext[1]) THEN height ELSE ext[1],
       IF F32Lt(height, ext[2]) \/ F32IsNan(ext[2]) THEN height ELSE ext[2] >>

\* The extremes after the samples lo .. hi of one tile, taken in the order
\* of the loops: sample i is him.height(i \div 65, i % 65).  The range is
\* split in two to keep the evaluation shallow; the order is the loop's
\* (the test e[1] = e[1] has the first half evaluated before the second).
RECURSIVE ExtremesRange(_, _, _, _, _)
ExtremesRange(ext, w, c, lo, hi) ==
    IF lo > hi THEN ext
    ELSE IF lo = hi
         THEN UpdateExtremes(ext, HimHeight(w, c, lo \div HimSize, lo % HimSize))
         ELSE LET mid == (lo + hi) \div 2
                  e == ExtremesRange(ext, w, c, lo, mid)
              IN  IF e[1] = e[1] THEN ExtremesRange(e, w, c, mid + 1, hi) ELSE e

ExtremesTile(ext, w, c) == ExtremesRange(ext, w, c, 0, HimSize * HimSize - 1)

(***************************************************************************)
(* The zone file.                                                          *)
(***************************************************************************)
ZoneTile(l1, l2, o1, o2, rot) ==
    [layer1 |-> l1, layer2 |-> l2, offset1 |-> o1, offset2 |-> o2, rotation |-> rot]

ZonFiles ==
    { [textures |-> <<>>, tiles |-> <<>>],
      [textures |-> <<"a.dds", "b.dds">>,
       tiles |-> <<ZoneTile(3, 7, 1, 2, 1), ZoneTile(2, 0, 9, 0, 5)>>],
      [textures |-> <<"a.dds">>,
       tiles |-> <<ZoneTile(1, 1, 1, 0, 2), ZoneTile(I32Max, -I32Max - 1, 1, -1, 3)>>] }

\* i32 addition: whether a + b leaves the i32 range, and its wrapped value.
I32Overflows(a, b) ==
    \/ (b > 0 /\ a > I32Max - b)
    \/ (b < 0 /\ a < (-I32Max - 1) - b)

I32WrappingAdd(a, b) ==
    IF b > 0 /\ a > I32Max - b THEN (a - I32Max - 1) + (b - I32Max - 1)
    ELSE IF b < 0 /\ a < (-I32Max - 1) - b THEN (a + I32Max + 1) + (b + I32Max + 1)
    ELSE a + b

TilemapTile(zon_tile) ==
    [layer1 |-> I32WrappingAdd(zon_tile.layer1, zon_tile.offset1),
     layer2 |-> I32WrappingAdd(zon_tile.layer2, zon_tile.offset2),
     rotation |-> zon_tile.rotation]

TileOverflows(zon_tile) ==
    \/ I32Overflows(zon_tile.layer1, zon_tile.offset1)
    \/ I32Overflows(zon_tile.layer2, zon_tile.offset2)


(***************************************************************************)
(* The state of one run of convert_map.                                    *)
(***************************************************************************)
VARIABLES
    world,              \* the map directory (input)
    pc,                 \* where the run is
    x_min, x_max, y_min, y_max,
    new_map_width, new_map_height,
    tiles_x, tiles_y,
    heights,            \* heights[row][column], new_map_height rows
    tiles,              \* tiles[row][column], tiles_y rows
    max_height, min_height,
    x, y,               \* the coordinate of the loop
    him, til,           \* the shape of the tile just loaded
    height_image,       \* height_image[row][column], a u8 per pixel
    zon,                \* the zone record
    tilemap,            \* the TilemapFile
    out,                \* the files written to out_dir
    result,             \* how the run ended
    samples, k,         \* a sample sequence and the samples consumed
    todo                \* the coordinates still to load, when the order is free

dimVars == << x_min, x_max, y_min, y_max, new_map_width, new_map_height,
              tiles_x, tiles_y >>
extVars == << max_height, min_height >>
loopVars == << x, y >>
exportVars == << height_image, zon, tilemap, out >>
seqVars == << samples, k, todo >>

vars == << world, pc, dimVars, heights, tiles, extVars, loopVars, him, til,
           exportVars, result, seqVars >>

NoTile == [length |-> 0, width |-> 0]
NoZon == [textures |-> <<>>, tiles |-> <<>>]
NoTilemap == [textures |-> <<>>, tiles |-> <<>>, tilemap |-> <<>>]
Running == [kind |-> "running", file |-> <<>>, dims |-> <<>>]
Outcome(kind, file, dims) == [kind |-> kind, file |-> file, dims |-> dims]

InitAt(w, at, seq) ==
    /\ world = w
    /\ pc = at
    /\ x_min = 0 /\ x_max = 0 /\ y_min = 0 /\ y_max = 0
    /\ new_map_width = 0 /\ new_map_height = 0
    /\ tiles_x = 0 /\ tiles_y = 0
    /\ heights = <<>> /\ tiles = <<>>
    /\ max_height = NaN /\ min_height = NaN
    /\ x = 0 /\ y = 0
    /\ him = NoTile /\ til = NoTile
    /\ height_image = <<>>
    /\ zon = NoZon
    /\ tilemap = NoTilemap
    /\ out = {}
    /\ result = Running
    /\ samples = seq /\ k = 0
    /\ todo = {}

InitRun(w) == InitAt(w, "scan", <<>>)

Init == \E w \in Worlds : InitRun(w)

\* Lines 340-369: the bounding rectangle and the dimensions of the grids.
ComputeDimensions ==
    /\ pc = "scan"
    /\ x_min' = SetMin(x_coords(world))
    /\ x_max' = SetMax(x_coords(world))
    /\ y_min' = SetMin(y_coords(world))
    /\ y_max' = SetMax(y_coords(world))
    /\ new_map_width' = new_map_dim(map_dim(x_min', x_max'))
    /\ new_map_height' = new_map_dim(map_dim(y_min', y_max'))
    /\ tiles_x' = tiles_dim(new_map_width')
    /\ tiles_y' = tiles_dim(new_map_height')
    /\ pc' = "alloc"
    /\ UNCHANGED << world, heights, tiles, extVars, loopVars, him, til,
                    exportVars, result, seqVars >>

\* Lines 361-378: both grids filled with zeroes, the loop at its first
\* coordinate.
Allocate ==
    /\ pc = "alloc"
    /\ heights' = [r \in 0 .. new_map_height - 1 |->
                      [c \in 0 .. new_map_width - 1 |-> 0]]
    /\ tiles' = [r \in 0 .. tiles_y - 1 |-> [c \in 0 .. tiles_x - 1 |-> 0]]
    /\ x' = x_min
    /\ y' = y_min
    /\ pc' = "load_him"
    /\ UNCHANGED << world, dimVars, extVars, him, til, exportVars, result, seqVars >>

\* Lines 380-391: HIM::from_path(..).unwrap() and the shape check.
LoadHim ==
    /\ pc = "load_him"
    /\ LET kind == FileKind(world, <<x, y>>, "HIM") IN
         \/ /\ kind = "absent"
            /\ pc' = "panic"
            /\ result' = Outcome("panic_unwrap", <<"HIM", x, y>>, <<>>)
            /\ him' = him
         \/ /\ kind = "shape"
            /\ \E d \in BadHimDims :
                 /\ him' = [length |-> d[1], width |-> d[2]]
                 /\ result' = Outcome("unexpected_dimensions", <<"HIM", x, y>>,
                                      <<d[2], d[1]>>)
            /\ pc' = "err"
         \/ /\ kind = "ok"
            /\ him' = [length |-> HimSize, width |-> HimSize]
            /\ pc' = "copy_him"
            /\ result' = result
    /\ UNCHANGED << world, dimVars, heights, tiles, extVars, loopVars, til,
                    exportVars, seqVars >>

\* The rows and columns of the height grid that the tile at (x, y) covers.
HimRows == him_new(y, y_min, 0) .. him_new(y, y_min, him.length - 1)
HimCols == him_new(x, x_min, 0) .. him_new(x, x_min, him.width - 1)

\* Lines 393-409: the copy of the 65 x 65 samples and the running extremes.
\* An index outside the grid is a panic (the memory of the run is gone).
CopyHim ==
    /\ pc = "copy_him"
    /\ IF /\ him_new(x, x_min, him.width - 1) < new_map_width
          /\ him_new(y, y_min, him.length - 1) < new_map_height
       THEN /\ heights' =
                 [r \in 0 .. new_map_height - 1 |->
                    IF r \in HimRows
                    THEN [c \in 0 .. new_map_width - 1 |->
                            IF c \in HimCols
                            THEN HimHeight(world, <<x, y>>,
                                           r - him_new(y, y_min, 0),
                                           c - him_new(x, x_min, 0))
                            ELSE heights[r][c]]
                    ELSE heights[r]]
            /\ LET ext == ExtremesTile(<<max_height, min_height>>, world, <<x, y>>)
               IN  max_height' = ext[1] /\ min_height' = ext[2]
            /\ pc' = "load_til"
            /\ result' = result
       ELSE /\ pc' = "panic"
            /\ result' = Outcome("panic_index", <<"HIM", x, y>>, <<>>)
            /\ UNCHANGED << heights, extVars >>
    /\ UNCHANGED << world, dimVars, tiles, loopVars, him, til, exportVars, seqVars >>

\* A variant of LoadTil without the shape check.
LoadTilUnchecked ==
    /\ pc = "load_til"
    /\ LET kind == FileKind(world, <<x, y>>, "TIL") IN
         \/ /\ kind = "absent"
            /\ pc' = "panic"
            /\ result' = Outcome("panic_unwrap", <<"TIL", x, y>>, <<>>)
            /\ til' = til
         \/ /\ kind = "shape"
            /\ \E d \in BadTilDims : til' = [length |-> d[1], width |-> d[2]]
            /\ pc' = "copy_til"
            /\ result' = result
         \/ /\ kind = "ok"
            /\ til' = [length |-> TilSize, width |-> TilSize]
            /\ pc' = "copy_til"
            /\ result' = result
    /\ UNCHANGED << world, dimVars, heights, tiles, extVars, loopVars, him,
                    exportVars, seqVars >>

\* Lines 412-423: TIL::from_path(..).unwrap() and the shape check.
LoadTil ==
    /\ pc = "load_til"
    /\ LET kind == FileKind(world, <<x, y>>, "TIL") IN
         \/ /\ kind = "absent"
            /\ pc' = "panic"
            /\ result' = Outcome("panic_unwrap", <<"TIL", x, y>>, <<>>)
            /\ til' = til
         \/ /\ kind = "shape"
            /\ \E d \in BadTilDims :
                 /\ til' = [length |-> d[1], width |-> d[2]]
                 /\ result' = Outcome("unexpected_dimensions", <<"TIL", x, y>>,
                                      <<d[2], d[1]>>)
            /\ pc' = "err"
         \/ /\ kind = "ok"
            /\ til' = [length |-> TilSize, width |-> TilSize]
            /\ pc' = "copy_til"
            /\ result' = result
    /\ UNCHANGED << world, dimVars, heights, tiles, extVars, loopVars, him,
                    exportVars, seqVars >>

\* The rows and columns of the tile-index grid that the tile at (x, y) covers.
TilRows == til_new(y, y_min, 0) .. til_new(y, y_min, til.length - 1)
TilCols == til_new(x, x_min, 0) .. til_new(x, x_min, til.width - 1)

\* Lines 425-439: the copy of the 16 x 16 tile ids, then the next coordinate
\* of `for y in y_min..=y_max { for x in x_min..=x_max {..} }`.
CopyTil ==
    /\ pc = "copy_til"
    /\ IF /\ til_new(x, x_min, til.width - 1) < tiles_x
          /\ til_new(y, y_min, til.length - 1) < tiles_y
       THEN /\ tiles' =
                 [r \in 0 .. tiles_y - 1 |->
                    IF r \in TilRows
                    THEN [c \in 0 .. tiles_x - 1 |->
                            IF c \in TilCols
                            THEN TilTileId(world, <<x, y>>,
                                           r - til_new(y, y_min, 0),
                                           c - til_new(x, x_min, 0))
                            ELSE tiles[r][c]]
                    ELSE tiles[r]]
            /\ IF x < x_max
               THEN x' = x + 1 /\ y' = y /\ pc' = "load_him"
               ELSE IF y < y_max
                    THEN x' = x_min /\ y' = y + 1 /\ pc' = "load_him"
                    ELSE x' = x /\ y' = y /\ pc' = "out_dir"
            /\ result' = result
       ELSE /\ pc' = "panic"
            /\ result' = Outcome("panic_index", <<"TIL", x, y>>, <<>>)
            /\ UNCHANGED << tiles, loopVars >>
    /\ UNCHANGED << world, dimVars, heights, extVars, him, til, exportVars, seqVars >>

\* Lines 441-443: create_output_dir(out_dir)?
CreateOutputDir ==
    /\ pc = "out_dir"
    /\ \/ pc' = "raster" /\ result' = result
       \/ pc' = "err" /\ result' = Outcome("create_output_dir", <<>>, <<>>)
    /\ UNCHANGED << world, dimVars, heights, tiles, extVars, loopVars, him, til,
                    exportVars, seqVars >>

\* Lines 445-459: the heightmap image.
Rasterize ==
    /\ pc = "raster"
    /\ LET delta_height == F32Sub(max_height, min_height) IN
         height_image' =
             [r \in 0 .. new_map_height - 1 |->
                [c \in 0 .. new_map_width - 1 |->
                   norm_height(heights[r][c], min_height, delta_height)]]
    /\ pc' = "save_image"
    /\ UNCHANGED << world, dimVars, heights, tiles, extVars, loopVars, him, til,
                    zon, tilemap, out, result, seqVars >>

\* Lines 461-467: height_image.save(height_file)?
SaveImage ==
    /\ pc = "save_image"
    /\ \/ /\ out' = out \cup {"png"}
          /\ pc' = "load_zon"
          /\ result' = result
       \/ /\ out' = out
          /\ pc' = "err"
          /\ result' = Outcome("image_save", <<>>, <<>>)
    /\ UNCHANGED << world, dimVars, heights, tiles, extVars, loopVars, him, til,
                    height_image, zon, tilemap, seqVars >>

\* Line 470: ZON::from_path(..)?
LoadZon ==
    /\ pc = "load_zon"
    /\ \/ /\ \E z \in ZonFiles : zon' = z
          /\ pc' = "dump_zon"
          /\ result' = result
       \/ /\ zon' = zon
          /\ pc' = "err"
          /\ result' = Outcome("zon_load", <<>>, <<>>)
    /\ UNCHANGED << world, dimVars, heights, tiles, extVars, loopVars, him, til,
                    height_image, tilemap, out, seqVars >>

\* Lines 471-477: File::create(zon_file)? and serde_json::to_writer_pretty?
DumpZon ==
    /\ pc = "dump_zon"
    /\ \/ /\ out' = out \cup {"zon_json"}
          /\ pc' = "build_tilemap"
          /\ result' = result
       \/ /\ out' = out
          /\ pc' = "err"
          /\ result' = Outcome("zon_dump", <<>>, <<>>)
    /\ UNCHANGED << world, dimVars, heights, tiles, extVars, loopVars, him, til,
                    height_image, zon, tilemap, seqVars >>

\* Lines 479-493: one TilemapTile per zone tile, then the TilemapFile.  An
\* i32 sum that overflows panics in a build with overflow checks and wraps
\* in one without.
BuildTilemap ==
    /\ pc = "build_tilemap"
    /\ \/ /\ LET tilemap_tiles ==
                   [i \in 1 .. Len(zon.tiles) |-> TilemapTile(zon.tiles[i])]
             IN  tilemap' = [textures |-> zon.textures,
                             tiles |-> tilemap_tiles,
                             tilemap |-> tiles]
          /\ pc' = "save_tilemap"
          /\ result' = result
       \/ /\ \E i \in 1 .. Len(zon.tiles) : TileOverflows(zon.tiles[i])
          /\ tilemap' = tilemap
          /\ pc' = "panic"
          /\ result' = Outcome("panic_overflow", <<>>, <<>>)
    /\ UNCHANGED << world, dimVars, heights, tiles, extVars, loopVars, him, til,
                    height_image, zon, out, seqVars >>

\* Lines 495-505: the tilemap JSON file.
SaveTilemap ==
    /\ pc = "save_tilemap"
    /\ \/ /\ out' = out \cup {"tilemap_json"}
          /\ pc' = "ok"
          /\ result' = Outcome("ok", <<>>, <<>>)
       \/ /\ out' = out
          /\ pc' = "err"
          /\ result' = Outcome("tilemap_save", <<>>, <<>>)
    /\ UNCHANGED << world, dimVars, heights, tiles, extVars, loopVars, him, til,
                    height_image, zon, tilemap, seqVars >>

Next ==
    \/ ComputeDimensions
    \/ Allocate
    \/ LoadHim
    \/ CopyHim
    \/ LoadTil
    \/ CopyTil
    \/ CreateOutputDir
    \/ Rasterize
    \/ SaveImage
    \/ LoadZon
    \/ DumpZon
    \/ BuildTilemap
    \/ SaveTilemap

Spec == Init /\ [][Next]_vars

(***************************************************************************)
(* The dimension arithmetic alone: directories of two HIM names at         *)
(* opposite corners of the rectangle, with spans small and around the      *)
(* steps of f32 precision (65 * span near 2^24 and 2^25).                  *)
(***************************************************************************)
DimSpans ==
    (1 .. MaxSpan)
    \cup {n \in 1 .. Pow2(20) : Abs(n - Pow2(24) \div HimSize) <= DimWindow}
    \cup {n \in 1 .. Pow2(20) : Abs(n - Pow2(25) \div HimSize) <= DimWindow}

DimWorlds ==
    {World({<<0, 0>>, <<nx - 1, ny - 1>>}, NoFaults, "ramp") :
        nx \in DimSpans, ny \in DimSpans}

InitDim == \E w \in DimWorlds : InitRun(w)

SpecDim == InitDim /\ [][ComputeDimensions]_vars

(***************************************************************************)
(* The extremes tracker fed an arbitrary sequence of samples, beside the    *)
(* runs of convert_map.                                                    *)
(***************************************************************************)
SampleValues == {-3, 0, 5, NaN, PosInf, NegInf}

SampleSeqs == UNION {[1 .. n -> SampleValues] : n \in 0 .. MaxSamples}

InitExtremes ==
    \E seq \in SampleSeqs :
        InitAt(World({<<0, 0>>}, NoFaults, "ramp"), "samples", seq)

Sample ==
    /\ pc = "samples"
    /\ k < Len(samples)
    /\ LET ext == UpdateExtremes(<<max_height, min_height>>, samples[k + 1])
       IN  max_height' = ext[1] /\ min_height' = ext[2]
    /\ k' = k + 1
    /\ UNCHANGED << world, pc, dimVars, heights, tiles, loopVars, him, til,
                    exportVars, result, samples, todo >>

\* The directories without an absent or wrong-shaped file, at the origin.
WholeWorlds == {w \in Worlds : DOMAIN w.faults = {} /\ <<0, 0>> \in w.listing}

InitWhole == \E w \in WholeWorlds : InitRun(w)

SpecExtremes == (InitWhole \/ InitExtremes) /\ [][Next \/ Sample]_vars

(***************************************************************************)
(* The assembly with the coordinates of the rectangle taken in any order:  *)
(* the body of the loop is the one of convert_map, the next coordinate is  *)
(* any coordinate not loaded yet.                                          *)
(***************************************************************************)
\* Lines 361-378, the first coordinate being any one of the rectangle.
AllocateAnyOrder ==
    /\ pc = "alloc"
    /\ heights' = [r \in 0 .. new_map_height - 1 |->
                      [c \in 0 .. new_map_width - 1 |-> 0]]
    /\ tiles' = [r \in 0 .. tiles_y - 1 |-> [c \in 0 .. tiles_x - 1 |-> 0]]
    /\ \E c \in (x_min .. x_max) \X (y_min .. y_max) :
          /\ x' = c[1]
          /\ y' = c[2]
          /\ todo' = ((x_min .. x_max) \X (y_min .. y_max)) \ {c}
    /\ pc' = "load_him"
    /\ UNCHANGED << world, dimVars, extVars, him, til, exportVars, result,
                    samples, k >>

\* Lines 425-439, the next coordinate being any one not loaded yet.
CopyTilAnyOrder ==
    /\ pc = "copy_til"
    /\ IF /\ til_new(x, x_min, til.width - 1) < tiles_x
          /\ til_new(y, y_min, til.length - 1) < tiles_y
       THEN /\ tiles' =
                 [r \in 0 .. tiles_y - 1 |->
                    IF r \in TilRows
                    THEN [c \in 0 .. tiles_x - 1 |->
                            IF c \in TilCols
                            THEN TilTileId(world, <<x, y>>,
                                           r - til_new(y, y_min, 0),
                                           c - til_new(x, x_min, 0))
                            ELSE tiles[r][c]]
                    ELSE tiles[r]]
            /\ IF todo = {}
               THEN pc' = "out_dir" /\ UNCHANGED << x, y, todo >>
               ELSE /\ \E c \in todo :
                         x' = c[1] /\ y' = c[2] /\ todo' = todo \ {c}
                    /\ pc' = "load_him"
            /\ result' = result
       ELSE /\ pc' = "panic"
            /\ result' = Outcome("panic_index", <<"TIL", x, y>>, <<>>)
            /\ UNCHANGED << tiles, loopVars, todo >>
    /\ UNCHANGED << world, dimVars, heights, extVars, him, til, exportVars,
                    samples, k >>

NextAnyOrder ==
    \/ ComputeDimensions
    \/ AllocateAnyOrder
    \/ LoadHim
    \/ CopyHim
    \/ LoadTil
    \/ CopyTilAnyOrder

SpecAnyOrder == InitWhole /\ [][NextAnyOrder]_vars

(***************************************************************************)
(* Properties.                                                             *)
(***************************************************************************)
Ended == pc \in {"ok", "err", "panic"}
Artifacts == {"png", "zon_json", "tilemap_json"}
Rectangle == (x_min .. x_max) \X (y_min .. y_max)
AssemblyDone ==
    pc \in {"out_dir", "raster", "save_image", "load_zon", "dump_zon",
            "build_tilemap", "save_tilemap", "ok"}

\* The place of a tile file in the order in which the loop loads the files.
ScanPos(w, f) ==
    LET B == BBox(w.listing)
        xs == {c[1] : c \in B}
        ys == {c[2] : c \in B}
    IN  ((f[1][2] - SetMin(ys)) * Cardinality(xs) + (f[1][1] - SetMin(xs))) * 2
        + (IF f[2] = "TIL" THEN 1 ELSE 0)

HasFault(w) == DOMAIN w.faults # {}
FirstFault(w) ==
    CHOOSE f \in DOMAIN w.faults :
        \A g \in DOMAIN w.faults : ScanPos(w, f) <= ScanPos(w, g)
FileOf(f) == << f[2], f[1][1], f[1][2] >>

\* C1: a run in which a step failed ends with no artifact written, and a run
\* ends with an artifact only if it ends with all three.
AllOrNothing ==
    Ended => /\ (result.kind # "ok" => out = {})
             /\ (out # {} => out = Artifacts)

\* C2 (the cell is inside the grid): once the dimensions are computed, the
\* last sample column and row of the last coordinate of the rectangle are
\* inside the new_map_width x new_map_height grid.
HeightCellsInsideGrid ==
    pc = "alloc" => /\ him_new(x_max, x_min, HimSize - 1) < new_map_width
                    /\ him_new(y_max, y_min, HimSize - 1) < new_map_height

\* The stitching half of C2, for the runs that complete the assembly.
HeightsStitched ==
    pc = "out_dir" =>
        \A c \in Rectangle : \A ly \in 0 .. HimSize - 1 : \A lx \in 0 .. HimSize - 1 :
            heights[(c[2] - y_min) * HimSize + ly][(c[1] - x_min) * HimSize + lx]
                = HimHeight(world, c, ly, lx)

\* C3: when the assembly is complete, the tile id at local cell (lx, ly) of
\* coordinate (x, y) is at global cell ((x-x_min)*16+lx, (y-y_min)*16+ly) of
\* the tile-index grid, and every such cell is inside the tiles_x x tiles_y
\* grid.
TileIndexStitched ==
    /\ pc # "scan" => /\ (x_max - x_min) * TilSize + TilSize - 1 < tiles_x
                      /\ (y_max - y_min) * TilSize + TilSize - 1 < tiles_y
    /\ ~(result.kind = "panic_index" /\ result.file[1] = "TIL")
    /\ AssemblyDone =>
         \A c \in Rectangle : \A ly \in 0 .. TilSize - 1 : \A lx \in 0 .. TilSize - 1 :
            /\ (c[2] - y_min) * TilSize + ly \in DOMAIN tiles
            /\ (c[1] - x_min) * TilSize + lx
                   \in DOMAIN tiles[(c[2] - y_min) * TilSize + ly]
            /\ tiles[(c[2] - y_min) * TilSize + ly][(c[1] - x_min) * TilSize + lx]
                   = TilTileId(world, c, ly, lx)

TileIndexStitchedReached ==
    /\ pc = "out_dir"
    /\ x_min > 0
    /\ x_max > x_min
    /\ y_max > y_min

\* C4: for a span of n coordinates the padded dimension is
\* ceil(65*n/4)*4 + 1 and the tile-index dimension is that value divided by
\* 4; the single coordinate (0,0) gives 69 and 17.
CeilDiv(a, b) == (a + b - 1) \div b
PaddedDim(n) == CeilDiv(HimSize * n, 4) * 4 + 1
DimensionArithmetic ==
    pc = "alloc" =>
        /\ new_map_width = PaddedDim(x_max - x_min + 1)
        /\ new_map_height = PaddedDim(y_max - y_min + 1)
        /\ tiles_x = PaddedDim(x_max - x_min + 1) \div 4
        /\ tiles_y = PaddedDim(y_max - y_min + 1) \div 4
        /\ (world.listing = {<<0, 0>>} =>
               /\ new_map_width = 69 /\ new_map_height = 69
               /\ tiles_x = 17 /\ tiles_y = 17)

\* C5: when the tracked minimum is strictly less than the tracked maximum,
\* every cell at the minimum is rendered 0 and every cell at the maximum is
\* rendered 255.
RasterExtremes ==
    (pc = "save_image" /\ F32Lt(min_height, max_height)) =>
        \A r \in DOMAIN heights : \A c \in DOMAIN heights[r] :
            /\ (heights[r][c] = min_height => height_image[r][c] = 0)
            /\ (heights[r][c] = max_height => height_image[r][c] = 255)

\* C6: the output tiles list has one entry per zone tile, in order, with
\* layer1 = layer1 + offset1, layer2 = layer2 + offset2 and the rotation of
\* the zone tile, and the tile-index grid is passed on unchanged.
ZoneMerge ==
    pc = "save_tilemap" =>
        /\ Len(tilemap.tiles) = Len(zon.tiles)
        /\ \A i \in 1 .. Len(zon.tiles) :
              /\ ~I32Overflows(zon.tiles[i].layer1, zon.tiles[i].offset1)
              /\ ~I32Overflows(zon.tiles[i].layer2, zon.tiles[i].offset2)
              /\ tilemap.tiles[i].layer1 = zon.tiles[i].layer1 + zon.tiles[i].offset1
              /\ tilemap.tiles[i].layer2 = zon.tiles[i].layer2 + zon.tiles[i].offset2
              /\ tilemap.tiles[i].rotation = zon.tiles[i].rotation
        /\ tilemap.tilemap = tiles

MissingTileReported ==
    (HasFault(world) /\ world.faults[FirstFault(world)] = "absent") =>
        /\ out = {}
        /\ Ended => /\ pc = "err"
                    /\ result.kind = "missing_tile"
                    /\ result.file = FileOf(FirstFault(world))

\* C9: when the tracked maximum equals the tracked minimum, every pixel of
\* the image, the padding included, has one value, the same for every such
\* field.
FlatFieldConstant ==
    (pc = "save_image" /\ ~F32IsNan(max_height) /\ max_height = min_height) =>
        \A r \in DOMAIN height_image : \A c \in DOMAIN height_image[r] :
            height_image[r][c] = 0

\* The greatest and the least of the samples that are numbers; NaN when
\* there is none.
TrueMax(S) ==
    LET num == {v \in S : ~F32IsNan(v)}
    IN  IF num = {} THEN NaN ELSE CHOOSE m \in num : \A v \in num : m >= v
TrueMin(S) ==
    LET num == {v \in S : ~F32IsNan(v)}
    IN  IF num = {} THEN NaN ELSE CHOOSE m \in num : \A v \in num : m <= v
Processed == {samples[i] : i \in 1 .. k}
AllSamples ==
    {HimHeight(world, c, h, wd) :
        c \in Rectangle, h \in 0 .. HimSize - 1, wd \in 0 .. HimSize - 1}

ExtremesAreTrue ==
    /\ (pc \in {"scan", "alloc"} \/ (pc = "samples" /\ k = 0)) =>
           F32IsNan(max_height) /\ F32IsNan(min_height)
    /\ pc = "samples" =>
           max_height = TrueMax(Processed) /\ min_height = TrueMin(Processed)
    /\ (pc = "samples" /\ k >= 1 /\ ~F32IsNan(samples[1])) =>
           ~F32IsNan(max_height) /\ ~F32IsNan(min_height)
    /\ pc = "out_dir" =>
           max_height = TrueMax(AllSamples) /\ min_height = TrueMin(AllSamples)

ExtremesStep ==
    /\ ~F32Lt(max_height', max_height)
    /\ ~F32Gt(min_height', min_height)
    /\ (~F32IsNan(max_height) => ~F32IsNan(max_height'))
    /\ (~F32IsNan(min_height) => ~F32IsNan(min_height'))

\* C10: the extremes are undefined before the first sample; after any prefix
\* of any sample sequence they are the greatest and the least of the samples
\* processed so far; from one step to the next the minimum never increases
\* and the maximum never decreases; at the end of the assembly they are the
\* greatest and the least of all samples of all tiles.
RunningExtremes == []ExtremesAreTrue /\ [][ExtremesStep]_vars

RunningExtremesReached ==
    /\ pc = "samples"
    /\ k = MaxSamples
    /\ samples = <<5, NaN, -3, PosInf>>
    /\ max_height = PosInf
    /\ min_height = -3

\* The cells of the height grid and of the tile-index grid, as
\* <<row, column>>, that the loop writes for coordinate c.
HimCellsOf(c) ==
    (him_new(c[2], y_min, 0) .. him_new(c[2], y_min, HimSize - 1))
    \X (him_new(c[1], x_min, 0) .. him_new(c[1], x_min, HimSize - 1))
TilCellsOf(c) ==
    (til_new(c[2], y_min, 0) .. til_new(c[2], y_min, TilSize - 1))
    \X (til_new(c[1], x_min, 0) .. til_new(c[1], x_min, TilSize - 1))

\* The grids as the directory alone determines them: the sample or tile id
\* of the tile that covers the cell, 0 where no tile does.
HeightsOfWorld ==
    [r \in 0 .. new_map_height - 1 |->
        [c \in 0 .. new_map_width - 1 |->
            IF /\ r < (y_max - y_min + 1) * HimSize
               /\ c < (x_max - x_min + 1) * HimSize
            THEN HimHeight(world, <<x_min + c \div HimSize, y_min + r \div HimSize>>,
                           r % HimSize, c % HimSize)
            ELSE 0]]
TilesOfWorld ==
    [r \in 0 .. tiles_y - 1 |->
        [c \in 0 .. tiles_x - 1 |->
            IF /\ r < (y_max - y_min + 1) * TilSize
               /\ c < (x_max - x_min + 1) * TilSize
            THEN TilTileId(world, <<x_min + c \div TilSize, y_min + r \div TilSize>>,
                           r % TilSize, c % TilSize)
            ELSE 0]]

\* m is the greatest (the least) of the values of S that are numbers, NaN
\* when S holds none.
IsGreatest(m, S) ==
    LET num == {v \in S : ~F32IsNan(v)}
    IN  IF num = {} THEN F32IsNan(m) ELSE m \in num /\ \A v \in num : m >= v
IsLeast(m, S) ==
    LET num == {v \in S : ~F32IsNan(v)}
    IN  IF num = {} THEN F32IsNan(m) ELSE m \in num /\ \A v \in num : m <= v

\* C11: the cells written for two distinct coordinates of the rectangle are
\* disjoint in the height grid and in the tile-index grid, and in whatever
\* order the coordinates are loaded, the assembly ends with the same two
\* grids and the same extremes.
DisjointTileWrites ==
    /\ pc = "alloc" =>
         \A c1 \in Rectangle : \A c2 \in Rectangle \ {c1} :
            /\ \A cell \in HimCellsOf(c1) : cell \notin HimCellsOf(c2)
            /\ \A cell \in TilCellsOf(c1) : cell \notin TilCellsOf(c2)
    /\ pc = "out_dir" =>
         /\ heights = HeightsOfWorld
         /\ tiles = TilesOfWorld
         /\ IsGreatest(max_height, AllSamples)
         /\ IsLeast(min_height, AllSamples)

DisjointTileWritesReached ==
    /\ pc = "out_dir"
    /\ x_max > x_min
    /\ y_max > y_min
    /\ <<x, y>> = <<x_min, y_min>>
    /\ todo = {}

=============================================================================
